---- MODULE Spec2Model ----
(***************************************************************************)
(* Recovery & Training-Load Analytics Engine of AI_Trainer.                *)
(*                                                                         *)
(* Part 1 (specification Spec): the Score/Recommendation Cache, keyed by   *)
(* (user_id, date), with single-flight recomputation, 24-hour expiry,      *)
(* invalidation on new data and caller-triggered recalculation.            *)
(* Part 2 (specification ScoreSpec): the pure scoring pipeline: component  *)
(* scorers, ACWR risk model, aggregator and recommendation engine; the     *)
(* Rolling Statistics Provider (StatsSpec) and the alternative workout     *)
(* generator (AlternativesSpec).                                           *)
(* Parts 3 to 6: the frontend: the WorkoutRecommendation and RecoveryScore *)
(* components (RenderSpec, RecoveryScoreSpec), the API client (ApiSpec)    *)
(* and the Dashboard page (DashboardSpec).                                 *)
(*                                                                         *)
(* The backend engine is described by the design documents of the          *)
(* repository (data model, research notes, API contract); the frontend     *)
(* sources are its callers.                                                *)
(***************************************************************************)
EXTENDS Integers, Sequences, FiniteSets, TLC

VARIABLES
    data,       \* data[u][d]: version of the DailyMetrics/WorkoutRecord data of user u on date d
    cache,      \* cache[k]: the cached entry of key k = <<user, date>>, or NoEntry
    inflight,   \* inflight[k]: the outstanding computations of key k (their input snapshots)
    client,     \* client[c]: what caller c is doing: idle, waiting on a key, or holding a response
    recalcLog,  \* recalcLog[k]: the last caller-triggered recalculation of key k
    writes,     \* number of data arrivals so far (the data epoch)
    ops,        \* number of caller operations so far
    phase,      \* scoring pipeline: "off" | "input" | "scored" | "failed" | "recommended"
    inp,        \* scoring pipeline: the inputs of the run
    score,      \* scoring pipeline: the RecoveryScore of the run
    history,    \* the workout-type history the recommendation was computed from
    rec,        \* scoring pipeline: the WorkoutRecommendation of the run
    series,     \* rolling statistics: the daily records of D-7 .. D, or <<>>
    olderDays,  \* rolling statistics: days of metrics on record before D-7
    stats,      \* rolling statistics: the RollingBaseline result of the run
    primary,    \* alternatives generator: the primary recommendation it is given
    altOut,     \* alternatives generator: whether it has run, and its list
    wrProps,    \* WorkoutRecommendation component: the props it is rendered with
    wrView,     \* WorkoutRecommendation component: the rendered output
    rsProps,    \* RecoveryScore component: the props it is rendered with
    rsView,     \* RecoveryScore component: the rendered output
    storedToken,\* API client: localStorage["auth_token"], None when the key is absent
    location,   \* API client: window.location.href
    calls,      \* API client: calls[i]: the API call of slot i
    lastAuth,   \* API client: the last of setAuthToken, clearAuthToken and a 401 response
    query,      \* Dashboard: the state of its useQuery
    dashView    \* Dashboard: the rendered output

cacheVars == <<data, cache, inflight, client, recalcLog, writes, ops>>
scoreVars == <<phase, inp, history, score, rec, series, olderDays, stats, primary, altOut>>
apiVars == <<storedToken, location, calls, lastAuth>>
dashVars == <<query, dashView>>
uiVars == <<wrProps, wrView, rsProps, rsView, apiVars, dashVars>>
vars == <<data, cache, inflight, client, recalcLog, writes, ops,
          phase, inp, history, score, rec, series, olderDays, stats, primary, altOut,
          wrProps, wrView, rsProps, rsView, storedToken, location, calls, lastAuth,
          query, dashView>>

(***************************************************************************)
(* Bounds of the model.                                                    *)
(***************************************************************************)
MaxOps == 3

(***************************************************************************)
(* Part 1: Score/Recommendation Cache                                      *)
(***************************************************************************)
Users == {"u1", "u2"}
Clients == {"c1", "c2"}

\* Entries live for 24 hours.
CacheTTLHours == 24
\* The clock of the model advances in steps of half the lifetime of an entry.
TickHours == CacheTTLHours \div 2

\* New data for date d invalidates d and the following 27 days.
InvalidationSpan == 27
\* The chronic-load window of target date D is the 28 days preceding D.
ChronicWindowDays == 28

\* The calendar dates of the model: a date, the last date its invalidation
\* reaches, and the first date it does not reach.
Dates == {0, InvalidationSpan, InvalidationSpan + 1}
\* The cache keys (user_id, date) of the model: every date of the first user,
\* and one date of a second user, whose entry must be left alone.
Keys == {k \in Users \X Dates : k[1] = "u1" \/ k[2] = 0}

NoEntry == [present |-> FALSE]
Idle == [st |-> "idle"]
NoRecalc == [st |-> "none"]

Min(a, b) == IF a <= b THEN a ELSE b

\* The dates whose records the engine reads for target date D: D itself
\* (today's raw values) and the trailing window ending the day before D.
WindowDates(D) == {x \in Dates : D - ChronicWindowDays <= x /\ x <= D}

\* The immutable snapshot of one user's data for one date that a computation
\* operates over.
Snapshot(k) == [x \in WindowDates(k[2]) |-> data[k[1]][x]]

\* computeRecoveryScore and computeRecommendation are pure: the cached result
\* is a function of the snapshot alone (Part 2 models the function itself).
ComputeResult(snap) == snap

\* A cached entry is served while it is younger than 24 hours.
ServableAnyAge(e) == e.present
Servable(e) == e.present /\ e.age < CacheTTLHours

\* Single-flight: a computation is started only when none is outstanding.
MustStartAlways(k) == TRUE
MustStart(k) == inflight[k] = <<>>

\* The callers that wait on the computation of key k.
ReceiversFirstOnly(k) ==
    LET w == {c \in Clients : client[c].st = "waiting" /\ client[c].key = k}
    IN  IF w = {} THEN {} ELSE {CHOOSE c \in w : TRUE}
Receivers(k) == {c \in Clients : client[c].st = "waiting" /\ client[c].key = k}

\* The dates whose cached entries new data for date d removes.
InvalidatedDatesTargetOnly(d) == {d}
InvalidatedDates(d) == {x \in Dates : d <= x /\ x <= d + InvalidationSpan}

Invalidate(c, u, ds) ==
    [k \in Keys |-> IF k[1] = u /\ k[2] \in ds THEN NoEntry ELSE c[k]]

Waiting(k) == [st |-> "waiting", key |-> k, reqEpoch |-> writes]
Response(k, v, via, reqEpoch) ==
    [st |-> "done", key |-> k, value |-> v, via |-> via, reqEpoch |-> reqEpoch]

\* The entry a finished computation leaves in the cache.
StoredEntryDropped(result) == NoEntry
StoredEntry(result) == [present |-> TRUE, value |-> result, age |-> 0]

CacheInit ==
    /\ data = [u \in Users |-> [d \in Dates |-> 0]]
    /\ cache \in {[k \in Keys |-> NoEntry],
                 [k \in Keys |-> [present |-> TRUE, value |-> Snapshot(k), age |-> 0]]}
    /\ inflight = [k \in Keys |-> <<>>]
    /\ client = [c \in Clients |-> Idle]
    /\ recalcLog = [k \in Keys |-> NoRecalc]
    /\ writes = 0
    /\ ops = 0

\* A caller requests the score of a date: the cache is checked; on a hit the
\* cached result is returned; on a miss the caller waits on the outstanding
\* computation of the key, which is started if there is none.
RequestScore(c, k) ==
    /\ client[c].st # "waiting"
    /\ ops < MaxOps
    /\ ops' = ops + 1
    /\ IF Servable(cache[k])
       THEN /\ client' = [client EXCEPT ![c] = Response(k, cache[k].value, "hit", writes)]
            /\ UNCHANGED inflight
       ELSE /\ client' = [client EXCEPT ![c] = Waiting(k)]
            /\ inflight' = IF MustStart(k)
                           THEN [inflight EXCEPT ![k] = Append(@, Snapshot(k))]
                           ELSE inflight
    /\ UNCHANGED <<data, cache, recalcLog, writes>>

\* An outstanding computation finishes: its result is cached and returned to
\* every caller waiting on the key.
CompleteComputation(k) ==
    /\ inflight[k] # <<>>
    /\ LET result == ComputeResult(Head(inflight[k]))
       IN  /\ cache' = [cache EXCEPT ![k] = StoredEntry(result)]
           /\ client' = [c \in Clients |->
                            IF c \in Receivers(k)
                            THEN Response(k, result, "computed", client[c].reqEpoch)
                            ELSE client[c]]
           /\ recalcLog' = [recalcLog EXCEPT ![k] =
                               IF @.st = "pending"
                               THEN [st |-> "done", epoch |-> @.epoch, value |-> result]
                               ELSE @]
    /\ inflight' = [inflight EXCEPT ![k] = Tail(@)]
    /\ UNCHANGED <<data, writes, ops>>

\* New DailyMetrics/WorkoutRecord data arrives for user u and date d: the
\* record is overwritten and the derived cache entries are invalidated.
NewData(u, d) ==
    /\ ops < MaxOps
    /\ ops' = ops + 1
    /\ writes' = writes + 1
    /\ data' = [data EXCEPT ![u][d] = @ + 1]
    /\ cache' = Invalidate(cache, u, InvalidatedDates(d))
    /\ UNCHANGED <<inflight, client, recalcLog>>

\* A caller triggers the recalculation of a date: cache invalidation plus a
\* queued recompute, which is subject to single-flight like any other.
Recalculate(k) ==
    /\ ops < MaxOps
    /\ ops' = ops + 1
    /\ cache' = [cache EXCEPT ![k] = NoEntry]
    /\ inflight' = IF MustStart(k)
                   THEN [inflight EXCEPT ![k] = Append(@, Snapshot(k))]
                   ELSE inflight
    /\ recalcLog' = [recalcLog EXCEPT ![k] = [st |-> "pending", epoch |-> writes]]
    /\ UNCHANGED <<data, client, writes>>

\* Time passes: every entry ages.
Tick ==
    /\ \E k \in Keys : Servable(cache[k])
    /\ cache' = [k \in Keys |->
                    IF cache[k].present
                    THEN [cache[k] EXCEPT !.age = Min(@ + TickHours, CacheTTLHours)]
                    ELSE cache[k]]
    /\ UNCHANGED <<data, inflight, client, recalcLog, writes, ops>>

(***************************************************************************)
(* Part 2: the scoring pipeline                                            *)
(***************************************************************************)
\* Optional values: absence is distinguished from zero.
None == <<>>
Some(v) == <<v>>
Val(o) == o[1]

\* round(num / den) for num >= 0, den > 0, halves rounded up.
Round(num, den) == (2 * num + den) \div (2 * den)
Clamp(x) == IF x < 0 THEN 0 ELSE IF x > 100 THEN 100 ELSE x

\* HRV scorer: deviation = (today - baseline) / baseline mapped through the
\* anchors +10% -> 100, -10% -> 50, -20% -> 0, linear in between, clamped.
HrvScoreZeroAnchor(today, baseline) ==
    LET d == today - baseline
    IN  IF 10 * d >= baseline THEN 100
        ELSE IF 10 * d >= -baseline THEN Round(50 * baseline + 500 * d, baseline)
        ELSE IF 10 * d >= -2 * baseline THEN Round(100 * baseline + 500 * d, baseline)
        ELSE 0
HrvScoreNoInterpolation(today, baseline) ==
    LET d == today - baseline
    IN  IF 10 * d >= baseline THEN 100
        ELSE IF 10 * d >= -baseline THEN 50
        ELSE 0
HrvScoreNoUpperClamp(today, baseline) ==
    LET d == today - baseline
    IN  IF 10 * d >= -baseline THEN Round(75 * baseline + 250 * d, baseline)
        ELSE IF 10 * d >= -2 * baseline THEN Round(100 * baseline + 500 * d, baseline)
        ELSE 0
HrvScore(today, baseline) ==
    LET d == today - baseline
    IN  IF 10 * d >= baseline THEN 100
        ELSE IF 10 * d >= -baseline THEN Round(75 * baseline + 250 * d, baseline)
        ELSE IF 10 * d >= -2 * baseline THEN Round(100 * baseline + 500 * d, baseline)
        ELSE 0

\* HR scorer (lower is better): anchors -5% -> 100, 0% -> 50, +10% -> 0.
HrScoreNotInverse(today, baseline) ==
    LET d == baseline - today
    IN  IF 20 * d <= -baseline THEN 100
        ELSE IF d <= 0 THEN Round(50 * baseline - 1000 * d, baseline)
        ELSE IF 10 * d < baseline THEN Round(50 * baseline - 500 * d, baseline)
        ELSE 0
HrScore(today, baseline) ==
    LET d == today - baseline
    IN  IF 20 * d <= -baseline THEN 100
        ELSE IF d <= 0 THEN Round(50 * baseline - 1000 * d, baseline)
        ELSE IF 10 * d < baseline THEN Round(50 * baseline - 500 * d, baseline)
        ELSE 0

\* Sleep duration: 7-9 h -> 100, 6 h -> 70, <= 5 h -> 30, linear in between.
\* (The shape above 9 h is left open; the inputs of the model stay within 9 h.)
SleepDurationScore(minutes) ==
    IF minutes >= 420 THEN 100
    ELSE IF minutes >= 360 THEN Round(140 + (minutes - 360), 2)
    ELSE IF minutes > 300 THEN Round(90 + 2 * (minutes - 300), 3)
    ELSE 30

\* Sleep: 0.6 * duration_score + 0.4 * quality_score; quality_score is the
\* supplied quality or, if absent, the duration score.
SleepScore(minutes, quality) ==
    LET dur == SleepDurationScore(minutes)
        qual == IF quality = None THEN dur ELSE Val(quality)
    IN  Round(6 * dur + 4 * qual, 10)

\* Stress: simple inversion.
StressScore(level) == 100 - level

ComponentNames == {"hrv", "hr", "sleep", "stress"}
\* Weights in percent when all four are present.
Weights == [hrv |-> 40, hr |-> 30, sleep |-> 20, stress |-> 10]

\* The four component scores of an input; a missing today value gives None.
ComponentScores(in) ==
    [hrv    |-> IF in.hrv = None THEN None ELSE Some(HrvScore(Val(in.hrv), in.hrvAvg)),
     hr     |-> IF in.hr = None THEN None ELSE Some(HrScore(Val(in.hr), in.hrAvg)),
     sleep  |-> IF in.sleepMin = None THEN None
                ELSE Some(SleepScore(Val(in.sleepMin), in.sleepQuality)),
     stress |-> IF in.stress = None THEN None ELSE Some(StressScore(Val(in.stress)))]

\* ACWR: ratio = acute_load_7d / chronic_load_28d; the adjustment factor, in
\* tenths: 0.8 when ratio > 1.5, 0.9 when 1.3 < ratio <= 1.5, otherwise 1.0;
\* 1.0 when the chronic load is 0 or absent (ratio undefined).
Acute(in) == in.load[1]
Chronic(in) == in.load[2]
RatioDefinedNoZeroGuard(in) == Chronic(in) # None
RatioDefined(in) == Chronic(in) # None /\ Val(Chronic(in)) # 0
AdjustmentTenthsInclusive(in) ==
    IF ~RatioDefined(in) THEN 10
    ELSE IF 2 * Acute(in) >= 3 * Val(Chronic(in)) THEN 8
    ELSE IF 10 * Acute(in) >= 13 * Val(Chronic(in)) THEN 9
    ELSE 10
AdjustmentTenths(in) ==
    IF ~RatioDefined(in) THEN 10
    ELSE IF 2 * Acute(in) > 3 * Val(Chronic(in)) THEN 8
    ELSE IF 10 * Acute(in) > 13 * Val(Chronic(in)) THEN 9
    ELSE 10

RECURSIVE SumOver(_, _)
SumOver(S, f) ==
    IF S = {} THEN 0
    ELSE LET x == CHOOSE y \in S : TRUE IN f[x] + SumOver(S \ {x}, f)

\* total_score = round(weighted_sum(component_scores) * adjustment_factor),
\* clamped to [0,100]; the weights of the present components are rescaled
\* proportionally to sum to 1.
TotalScoreMissingAsZero(comps, tenths) ==
    LET present == {c \in ComponentNames : comps[c] # None}
        wsum == SumOver(ComponentNames, Weights)
        ssum == SumOver(present, [c \in present |-> Weights[c] * Val(comps[c])])
    IN  Clamp(Round(ssum * tenths, wsum * 10))
TotalScore(comps, tenths) ==
    LET present == {c \in ComponentNames : comps[c] # None}
        wsum == SumOver(present, Weights)
        ssum == SumOver(present, [c \in present |-> Weights[c] * Val(comps[c])])
    IN  Clamp(Round(ssum * tenths, wsum * 10))

\* Status bands.
StatusOfStrict(total) ==
    IF total > 80 THEN "green" ELSE IF total > 50 THEN "yellow" ELSE "red"
StatusOf(total) ==
    IF total >= 80 THEN "green" ELSE IF total >= 50 THEN "yellow" ELSE "red"

\* Anomaly: resting HR elevated (>= +10% vs baseline) together with depressed
\* HRV (<= -10% vs baseline).
Anomaly(in) ==
    /\ in.hr # None
    /\ in.hrv # None
    /\ 10 * Val(in.hr) >= 11 * in.hrAvg
    /\ 10 * Val(in.hrv) <= 9 * in.hrvAvg

NoScore == [ok |-> FALSE, error |-> "none"]
NoRec == [intensity |-> "none", warnings |-> <<>>, workout_type |-> "none"]

\* Hard precondition of any scoring: days of metrics on record for the user.
DaysRequired == 7
HasHistoryOffByOne(in) == in.days + 1 >= DaysRequired
HasHistory(in) == in.days >= DaysRequired

InsufficientHistory(in) ==
    [ok |-> FALSE, error |-> "InsufficientHistory",
     days_available |-> in.days, days_required |-> DaysRequired]

\* computeRecoveryScore on the metrics of one user and date.
computeRecoveryScore(in) ==
    LET comps == ComponentScores(in)
    IN  IF ~HasHistory(in) THEN InsufficientHistory(in)
        ELSE IF \A c \in ComponentNames : comps[c] = None
        THEN [ok |-> FALSE, error |-> "NoHealthMetrics"]
        ELSE LET total == TotalScore(comps, AdjustmentTenths(in))
             IN  [ok |-> TRUE,
                  total_score |-> total,
                  status |-> StatusOf(total),
                  components |-> comps,
                  adjustment_tenths |-> AdjustmentTenths(in),
                  ratio_defined |-> RatioDefined(in),
                  anomaly_flag |-> Anomaly(in)]

\* Intensity tiers, lowest first.
Tiers == <<"rest", "recovery", "easy", "moderate", "hard", "maximal">>
TierIndex(t) == CHOOSE i \in 1..Len(Tiers) : Tiers[i] = t

\* Base tier lookup keyed by status.
BaseTierYellowEasy(status) ==
    IF status = "green" THEN "hard" ELSE IF status = "yellow" THEN "easy" ELSE "rest"
BaseTier(status) ==
    IF status = "green" THEN "hard" ELSE IF status = "yellow" THEN "moderate" ELSE "rest"

\* One tier down; rest is the lowest tier.
OneTierBelow(t) == IF TierIndex(t) = 1 THEN t ELSE Tiers[TierIndex(t) - 1]

\* Sessions of moderate intensity or harder on this many of the preceding
\* OvertrainingDays calendar days trigger the overtraining override.
OvertrainingDays == 3
OvertrainedStrict(recentHardDays) == recentHardDays > OvertrainingDays
Overtrained(recentHardDays) == recentHardDays >= OvertrainingDays

OVERTRAINING_WARNING == "overtraining"
ILLNESS_WARNING == "possible illness"

\* The overrides, each taking and returning the recommendation in progress.
OvertrainingOverride(r, recentHardDays) ==
    IF Overtrained(recentHardDays)
    THEN [intensity |-> OneTierBelow(r.intensity),
          warnings |-> Append(r.warnings, OVERTRAINING_WARNING)]
    ELSE r

AnomalyOverrideSkipped(r, s) == r
AnomalyOverride(r, s) ==
    IF s.anomaly_flag
    THEN [intensity |-> "rest", warnings |-> Append(r.warnings, ILLNESS_WARNING)]
    ELSE r

\* Workout types; the workout-type history of a user is a sequence of them.
WorkoutTypes == {"run", "bike", "swim", "strength", "rest", "active_recovery"}
REST_DAY == "rest"
Occurrences(h, t) == Cardinality({i \in DOMAIN h : h[i] = t})
NonRestTypes(h) == {h[i] : i \in DOMAIN h} \ {REST_DAY}

\* The most frequent non-rest type of the history, None when it has none.
MostFrequentType(h) ==
    IF NonRestTypes(h) = {} THEN None
    ELSE Some(CHOOSE t \in NonRestTypes(h) :
                  \A u \in NonRestTypes(h) : Occurrences(h, t) >= Occurrences(h, u))

\* Workout type for a tier: a rest tier is a rest day; otherwise the most
\* frequent non-rest type, with the rest day as the fallback when the history
\* offers none.
SelectWorkoutTypeNoFallback(tier, h) ==
    IF tier = "rest" THEN REST_DAY
    ELSE IF MostFrequentType(h) = None THEN "none"
    ELSE Val(MostFrequentType(h))
SelectWorkoutType(tier, h) ==
    IF tier = "rest" THEN REST_DAY
    ELSE IF MostFrequentType(h) = None THEN REST_DAY
    ELSE Val(MostFrequentType(h))

\* computeRecommendation: base tier lookup, then the override pipeline, then
\* the workout type of the resulting tier.
computeRecommendation(s, recentHardDays, h) ==
    LET base == [intensity |-> BaseTier(s.status), warnings |-> <<>>]
        r == AnomalyOverride(OvertrainingOverride(base, recentHardDays), s)
    IN  [intensity |-> r.intensity, warnings |-> r.warnings,
         workout_type |-> SelectWorkoutType(r.intensity, h)]

\* The inputs of the model.
HrvAvgs == {59, 60}
HrvTodays == {None, Some(47), Some(48), Some(50), Some(54), Some(60), Some(65), Some(66), Some(90)}
HrAvgs == {55, 60}
HrTodays == {None, Some(50), Some(53), Some(55), Some(57), Some(60), Some(66), Some(80)}
SleepMinutes == {None, Some(240), Some(300), Some(330), Some(390), Some(480)}
SleepQualities == {None, Some(0), Some(85)}
StressLevels == {None, Some(0), Some(30), Some(70)}
\* <<acute_load_7d, chronic_load_28d>>
Loads == {<<280, Some(320)>>, <<390, Some(300)>>, <<435, Some(300)>>, <<450, Some(300)>>,
          <<500, Some(300)>>, <<280, Some(0)>>, <<280, None>>}
RecentHardDays == 0..OvertrainingDays
\* HRV values around the anchors of both baselines, for comparing scores.
HrvProbes == 44..68
\* Workout-type histories: empty, rest days only, mixed.
Histories == {<<>>, <<"rest", "rest">>, <<"run", "bike", "rest", "bike">>}

\* Days of metrics on record: none, Scenario C, one short of the minimum.
ShortHistories == {0, 3, DaysRequired - 1}

\* Users with enough history, and users without.
ScorableInputs ==
    [hrv : HrvTodays, hrvAvg : HrvAvgs, hr : HrTodays, hrAvg : HrAvgs,
     sleepMin : SleepMinutes, sleepQuality : SleepQualities, stress : StressLevels,
     load : Loads, recentHard : RecentHardDays, days : {DaysRequired}]
ShortHistoryInputs ==
    [hrv : HrvTodays, hrvAvg : HrvAvgs, hr : HrTodays, hrAvg : HrAvgs,
     sleepMin : {None, Some(480)}, sleepQuality : {None}, stress : {None, Some(30)},
     load : Loads, recentHard : {0}, days : ShortHistories]
Inputs == ScorableInputs \cup ShortHistoryInputs

(***************************************************************************)
(* Part 2a: the Rolling Statistics Provider                                *)
(***************************************************************************)
\* The baselines of target date D are means over the 7 days preceding D.
BaselineDays == 7
\* Fewer than 4 of the 7 days with data: the baseline is None.
MinBaselineDays == 4
\* Plausible ranges of the raw metrics.
HrvPlausibleMin == 10
HrvPlausibleMax == 200
HrPlausibleMin == 30
HrPlausibleMax == 220

MetricFields == {"hrv_ms", "resting_hr"}

\* A series holds the records of days D-7 .. D-1 at positions 1 .. 7 and the
\* record of the target date D at position Today.
Today == BaselineDays + 1
SeriesDays == 1..Today
PrecedingDaysWithToday == 1..Today
PrecedingDays == 1..BaselineDays

PlausibleRange(f) ==
    IF f = "hrv_ms" THEN HrvPlausibleMin..HrvPlausibleMax
    ELSE HrPlausibleMin..HrPlausibleMax

Plausible(f, o) == o = None \/ Val(o) \in PlausibleRange(f)

\* The readings of a series that are outside their plausible range.
Malformed(s) == {df \in SeriesDays \X MetricFields : ~Plausible(df[2], s[df[1]][df[2]])}

\* The earliest of them, HRV before resting HR on the same day.
FirstMalformed(s) ==
    CHOOSE df \in Malformed(s) :
        \A o \in Malformed(s) :
            \/ df[1] < o[1]
            \/ df[1] = o[1] /\ (df[2] = "hrv_ms" \/ o[2] = "resting_hr")

MalformedMetric(s) ==
    LET df == FirstMalformed(s)
    IN  [ok |-> FALSE, error |-> "MalformedMetric", day |-> df[1], field |-> df[2],
         value |-> Val(s[df[1]][df[2]])]

\* The days of a window on which the metric has a value.
Available(s, f, days) == {i \in days : s[i][f] # None}

RECURSIVE SumOfValues(_, _, _)
SumOfValues(s, f, days) ==
    IF days = {} THEN 0
    ELSE LET i == CHOOSE d \in days : TRUE
         IN  Val(s[i][f]) + SumOfValues(s, f, days \ {i})

\* The arithmetic mean of the available values of the preceding days, kept
\* exact as <<sum, count>>; None under the insufficient-baseline policy.
RollingAverage(s, f) ==
    LET days == Available(s, f, PrecedingDays)
    IN  IF Cardinality(days) < MinBaselineDays THEN None
        ELSE Some(<<SumOfValues(s, f, days), Cardinality(days)>>)

\* Days with any metrics on record: the days of the series plus older ones.
DaysAvailable(s, older) ==
    older + Cardinality({i \in SeriesDays : \E f \in MetricFields : s[i][f] # None})

Baselines(s, older) ==
    IF DaysAvailable(s, older) < DaysRequired
    THEN [ok |-> FALSE, error |-> "InsufficientHistory",
          days_available |-> DaysAvailable(s, older), days_required |-> DaysRequired]
    ELSE [ok |-> TRUE, hrv_avg_7d |-> RollingAverage(s, "hrv_ms"),
          hr_avg_7d |-> RollingAverage(s, "resting_hr")]

\* A provider that clamps implausible readings into range and carries on.
rollingStatisticsClamped(s, older) ==
    LET lo(f) == IF f = "hrv_ms" THEN HrvPlausibleMin ELSE HrPlausibleMin
        hi(f) == IF f = "hrv_ms" THEN HrvPlausibleMax ELSE HrPlausibleMax
        clamped(f, o) ==
            IF o = None THEN None
            ELSE Some(IF Val(o) < lo(f) THEN lo(f) ELSE IF Val(o) > hi(f) THEN hi(f) ELSE Val(o))
    IN  Baselines([i \in SeriesDays |-> [f \in MetricFields |-> clamped(f, s[i][f])]], older)

\* The provider: implausible readings are reported, never averaged.
rollingStatistics(s, older) ==
    IF Malformed(s) # {} THEN MalformedMetric(s) ELSE Baselines(s, older)

\* Daily records: no data, a healthy day, a day without a resting HR, and days
\* with an HRV or a resting HR no body produces.
DayRecords ==
    {[hrv_ms |-> None, resting_hr |-> None],
     [hrv_ms |-> Some(50), resting_hr |-> Some(60)],
     [hrv_ms |-> Some(68), resting_hr |-> None],
     [hrv_ms |-> Some(5), resting_hr |-> Some(60)],
     [hrv_ms |-> Some(60), resting_hr |-> Some(250)]}
SeriesSet == [SeriesDays -> DayRecords]
OlderDays == {0, DaysRequired}
NoStats == [ok |-> FALSE, error |-> "none"]

(***************************************************************************)
(* Part 2b: the alternative workout generator                              *)
(***************************************************************************)
MaxAlternatives == 2

\* The tiers next to a tier in the order of Tiers.
AdjacentTiersOrSame(t) ==
    {Tiers[i] : i \in {TierIndex(t) - 1, TierIndex(t), TierIndex(t) + 1} \cap DOMAIN Tiers}
AdjacentTiers(t) ==
    {Tiers[i] : i \in {TierIndex(t) - 1, TierIndex(t) + 1} \cap DOMAIN Tiers}

\* What the generator may offer next to a primary recommendation.
AlternativeCandidates(p) ==
    [workout_type : WorkoutTypes, intensity_level : AdjacentTiers(p.intensity)]

\* The lists it may return: up to MaxAlternatives different candidates.
AlternativesFor(p) ==
    {<<>>} \cup {<<a>> : a \in AlternativeCandidates(p)}
           \cup {<<ab[1], ab[2]>> :
                    ab \in {c \in AlternativeCandidates(p) \X AlternativeCandidates(p) :
                               c[1] # c[2]}}

\* The primary recommendations the engine produces.
Primaries ==
    {computeRecommendation([status |-> st, anomaly_flag |-> a], n, h) :
        st \in {"green", "yellow", "red"}, a \in BOOLEAN,
        n \in RecentHardDays, h \in Histories}

NotGenerated == [done |-> FALSE, list |-> <<>>]

AltIdle ==
    /\ primary = NoRec
    /\ altOut = NotGenerated

StatsIdle ==
    /\ series = <<>>
    /\ olderDays = 0
    /\ stats = NoStats

ScoreIdle ==
    /\ phase = "off"
    /\ inp = <<>>
    /\ history = <<>>
    /\ score = NoScore
    /\ rec = NoRec
    /\ StatsIdle
    /\ AltIdle

StatsInit ==
    /\ phase = "off"
    /\ inp = <<>>
    /\ history = <<>>
    /\ score = NoScore
    /\ rec = NoRec
    /\ series \in SeriesSet
    /\ olderDays \in OlderDays
    /\ stats = NoStats
    /\ AltIdle

AlternativesInit ==
    /\ phase = "off"
    /\ inp = <<>>
    /\ history = <<>>
    /\ score = NoScore
    /\ rec = NoRec
    /\ StatsIdle
    /\ primary \in Primaries
    /\ altOut = NotGenerated

\* The generator runs on a primary recommendation.
GenerateAlternatives ==
    /\ primary # NoRec
    /\ ~altOut.done
    /\ \E l \in AlternativesFor(primary) : altOut' = [done |-> TRUE, list |-> l]
    /\ UNCHANGED <<phase, inp, history, score, rec, series, olderDays, stats, primary>>

\* The provider runs on the series of the target date.
ComputeBaselines ==
    /\ series # <<>>
    /\ stats = NoStats
    /\ stats' = rollingStatistics(series, olderDays)
    /\ UNCHANGED <<phase, inp, history, score, rec, series, olderDays, primary, altOut>>

ScoreInit ==
    /\ phase = "input"
    /\ inp \in Inputs
    /\ history = <<>>
    /\ score = NoScore
    /\ rec = NoRec
    /\ StatsIdle
    /\ AltIdle

\* The aggregator runs on the inputs.
Score ==
    /\ phase = "input"
    /\ score' = computeRecoveryScore(inp)
    /\ phase' = IF score'.ok THEN "scored" ELSE "failed"
    /\ UNCHANGED <<inp, history, rec, series, olderDays, stats, primary, altOut>>

\* The recommendation engine runs on the score and the recent workouts.
Recommend ==
    /\ phase = "scored"
    /\ \E h \in Histories :
        /\ history' = h
        /\ rec' = computeRecommendation(score, inp.recentHard, h)
    /\ phase' = "recommended"
    /\ UNCHANGED <<inp, score, series, olderDays, stats, primary, altOut>>

(***************************************************************************)
(* Part 3: the WorkoutRecommendation component (frontend)                  *)
(***************************************************************************)
\* A value of type T | null is None or Some(v). In JSX, {x && <el/>} renders
\* the element when x is truthy, nothing when x is null, false or "", and the
\* text "0" when x is the number 0.
TruthyNumber(o) == o # None /\ Val(o) # 0
TruthyString(o) == o # None /\ Val(o) # ""

intensityColors ==
    [hard     |-> "bg-red-100 text-red-800 border-red-200",
     moderate |-> "bg-yellow-100 text-yellow-800 border-yellow-200",
     recovery |-> "bg-blue-100 text-blue-800 border-blue-200",
     rest     |-> "bg-gray-100 text-gray-800 border-gray-200"]

\* Property names every object literal inherits from Object.prototype; a
\* lookup of one of them yields the inherited member, which is truthy.
ObjectPrototypeKeys == {"constructor", "toString", "valueOf", "hasOwnProperty"}
INHERITED_MEMBER == "[Object.prototype member]"

getIntensityColor(intensity) ==
    IF intensity \in DOMAIN intensityColors THEN intensityColors[intensity]
    ELSE IF intensity \in ObjectPrototypeKeys THEN INHERITED_MEMBER
    ELSE intensityColors.moderate

SeqMin(q) == CHOOSE x \in {q[i] : i \in DOMAIN q} : \A i \in DOMAIN q : x <= q[i]
SeqMax(q) == CHOOSE x \in {q[i] : i \in DOMAIN q} : \A i \in DOMAIN q : x >= q[i]

\* "" | "Zone z" | "Zone lo-hi"
formatZones(zones) ==
    IF zones = None \/ Len(Val(zones)) = 0 THEN [kind |-> "empty", lo |-> 0, hi |-> 0]
    ELSE IF Len(Val(zones)) = 1
         THEN [kind |-> "single", lo |-> Val(zones)[1], hi |-> Val(zones)[1]]
    ELSE [kind |-> "range", lo |-> SeqMin(Val(zones)), hi |-> SeqMax(Val(zones))]

\* {n && <span>{n} unit</span>}
GuardedMinutes(n, unit) ==
    IF n = None THEN None
    ELSE IF Val(n) = 0 THEN Some([text |-> "0", n |-> 0])
    ELSE Some([text |-> unit, n |-> Val(n)])

\* {recommendation.warnings.length > 0 && (...)}
WarningsBlockFirstOnly(warnings) ==
    IF Len(warnings) > 0
    THEN Some([title |-> "Important Considerations", items |-> <<warnings[1]>>])
    ELSE None
WarningsBlock(warnings) ==
    IF Len(warnings) > 0
    THEN Some([title |-> "Important Considerations",
               items |-> [i \in DOMAIN warnings |-> warnings[i]]])
    ELSE None

\* {recommendation.details && (...)}
DetailsBlock(details) ==
    IF details # None
    THEN LET d == Val(details)
         IN  Some([title |-> "Workout Structure",
                   structure |-> IF TruthyString(d.structure) THEN d.structure ELSE None,
                   zones |-> IF d.zones # None /\ Len(Val(d.zones)) > 0
                             THEN Some(formatZones(d.zones)) ELSE None,
                   warmup |-> GuardedMinutes(d.warmup, "min"),
                   cooldown |-> GuardedMinutes(d.cooldown, "min")])
    ELSE None

\* {alternatives.length > 0 && (...)}
AlternativesBlock(alternatives) ==
    IF Len(alternatives) > 0
    THEN Some([title |-> "Alternative Workouts",
               cards |-> [i \in DOMAIN alternatives |->
                             [heading |-> alternatives[i].workout_type,
                              badge |-> [text |-> alternatives[i].intensity,
                                         className |-> getIntensityColor(alternatives[i].intensity)],
                              rationale |-> alternatives[i].rationale,
                              duration |-> GuardedMinutes(alternatives[i].duration, "minutes")]]])
    ELSE None

\* The component: props to rendered article.
WorkoutRecommendation(props) ==
    LET recommendation == props.recommendation
    IN  [heading |-> recommendation.workout_type,
         badge |-> [text |-> recommendation.intensity,
                    className |-> getIntensityColor(recommendation.intensity)],
         duration |-> GuardedMinutes(recommendation.duration, "min"),
         rationale |-> recommendation.rationale,
         warnings |-> WarningsBlock(recommendation.warnings),
         details |-> DetailsBlock(recommendation.details),
         alternatives |-> AlternativesBlock(props.alternatives)]

\* Props the component is rendered with.
Durations == {None, Some(0), Some(45)}
WorkoutDetailsValues ==
    {None,
     Some([structure |-> Some("4x8min @ Zone 4"), zones |-> Some(<<4, 5>>),
           warmup |-> Some(15), cooldown |-> Some(10)]),
     Some([structure |-> Some(""), zones |-> Some(<<>>),
           warmup |-> Some(0), cooldown |-> None]),
     Some([structure |-> None, zones |-> None, warmup |-> None, cooldown |-> None])}
WarningLists ==
    {<<>>,
     <<"You have trained hard 3 days in a row. Consider an easy day.">>,
     <<"overtraining", "possible illness">>,
     <<"">>}
Alternative(type, intensity, duration) ==
    [workout_type |-> type, intensity |-> intensity, duration |-> duration,
     rationale |-> "Lower intensity option", details |-> None]
AlternativeLists ==
    {<<>>,
     <<Alternative("endurance", "moderate", Some(60))>>,
     <<Alternative("endurance", "moderate", Some(60)), Alternative("walk", "recovery", None)>>}
Intensities == {"hard", "moderate", "recovery", "rest", "easy", "maximal", "constructor"}
RecommendationProps ==
    [intensity : Intensities, workout_type : {"intervals"}, duration : Durations,
     rationale : {"Your recovery is excellent (85/100)."},
     details : WorkoutDetailsValues, warnings : WarningLists]
Props == [recommendation : RecommendationProps, alternatives : AlternativeLists]

NoProps == <<>>
NotRendered == <<>>

(***************************************************************************)
(* Part 4: the RecoveryScore component (frontend)                          *)
(***************************************************************************)
statusColors == [green |-> "bg-green-500", yellow |-> "bg-yellow-500", red |-> "bg-red-500"]

componentLabels ==
    [hrv_score |-> "HRV", hr_score |-> "Resting HR", sleep_score |-> "Sleep",
     acwr_score |-> "Training Load"]

\* Object.entries(data.components): the keys in declaration order.
ComponentKeys == <<"hrv_score", "hr_score", "sleep_score", "acwr_score">>

\* new Date("YYYY-MM-DD") is midnight UTC of that day; toLocaleDateString
\* prints the local calendar day, which is the day before in time zones west
\* of UTC. Dates are day numbers.
formatDate(day, zone) == IF zone = "west" THEN day - 1 ELSE day

\* The rows of the breakdown: entries whose value is null return null.
RECURSIVE BreakdownRowsAll(_, _)
BreakdownRowsAll(components, keys) ==
    IF keys = <<>> THEN <<>>
    ELSE <<[label |-> componentLabels[Head(keys)],
            value |-> IF components[Head(keys)] = None THEN 0
                      ELSE Val(components[Head(keys)])]>>
         \o BreakdownRowsAll(components, Tail(keys))
RECURSIVE BreakdownRows(_, _)
BreakdownRows(components, keys) ==
    IF keys = <<>> THEN <<>>
    ELSE (IF components[Head(keys)] = None THEN <<>>
          ELSE <<[label |-> componentLabels[Head(keys)],
                  value |-> Val(components[Head(keys)])]>>)
         \o BreakdownRows(components, Tail(keys))

\* The component: props to rendered region.
RecoveryScore(props) ==
    LET d == props.data
    IN  [date |-> formatDate(d.date, props.zone),
         overall_score |-> d.overall_score,
         statusClass |-> statusColors[d.status],
         statusLabel |-> d.status,
         explanation |-> d.explanation,
         breakdown |-> BreakdownRows(d.components, ComponentKeys),
         expiredNotice |-> IF d.is_expired
                           THEN Some("Score is updating... Data may be slightly outdated.")
                           ELSE None]

\* Props the component is rendered with.
ComponentValues == {None, Some(0), Some(90)}
RecoveryScoreData ==
    [date : {297}, overall_score : {0, 85}, status : {"green", "yellow", "red"},
     components : [hrv_score : ComponentValues, hr_score : ComponentValues,
                   sleep_score : ComponentValues, acwr_score : ComponentValues],
     explanation : {"Excellent recovery (Score: 85/100)"},
     is_expired : BOOLEAN]
RecoveryScoreProps == [data : RecoveryScoreData, zone : {"utc", "east", "west"}]

(***************************************************************************)
(* Part 5: the API client (frontend/src/services/api.ts)                   *)
(***************************************************************************)
\* Concurrent API calls.
MaxCalls == 1
\* Automatic retries of a failed call (Dashboard useQuery).
retry == 2

Slots == 1..MaxCalls
Tokens == {"", "t1", "t2"}

AUTH_REQUIRED == "Authentication required. Please log in."
FORBIDDEN == "Access forbidden. You do not have permission."
NOT_FOUND == "Resource not found."
INVALID_DATA == "Invalid data provided."
TOO_MANY == "Too many requests. Please try again later."
SERVER_ERROR == "Server error. Please try again later."
UNEXPECTED == "An unexpected error occurred."
NETWORK_ERROR == "Network error. Please check your connection."

\* Request interceptor: the Authorization header of an outgoing request.
requestInterceptorNonNull(token) ==
    IF token # None THEN Some(<<"Bearer", Val(token)>>) ELSE None
requestInterceptor(token) ==
    IF TruthyString(token) THEN Some(<<"Bearer", Val(token)>>) ELSE None

\* What comes back for a request: a response with a status and an optional
\* detail, no response at all, or a failure before the request was sent.
ErrorStatuses == {401, 403, 404, 422, 429, 500, 503}
Details == {None, Some(""), Some("detail from server")}
Outcomes ==
    [kind : {"response"}, status : {200}, detail : {None}]
        \cup [kind : {"response"}, status : ErrorStatuses, detail : Details]
        \cup [kind : {"no_response"}, status : {0}, detail : {None}]
SetupFailures == [kind : {"setup"}, status : {0}, detail : {None, Some(""), Some("Invalid URL")}]

\* data?.detail || fallback, error.message || fallback
OrElse(o, fallback) == IF TruthyString(o) THEN Val(o) ELSE fallback

\* The statuses on which the response interceptor drops the token.
UnauthorizedOrForbidden(status) == status \in {401, 403}
Unauthorized(status) == status = 401

\* Response interceptor, error handler: the message of the Error it throws.
errorMessage(o) ==
    IF o.kind = "response"
    THEN CASE o.status = 401 -> AUTH_REQUIRED
           [] o.status = 403 -> FORBIDDEN
           [] o.status = 404 -> OrElse(o.detail, NOT_FOUND)
           [] o.status = 422 -> OrElse(o.detail, INVALID_DATA)
           [] o.status = 429 -> TOO_MANY
           [] o.status = 500 -> SERVER_ERROR
           [] OTHER -> OrElse(o.detail, UNEXPECTED)
    ELSE IF o.kind = "no_response" THEN NETWORK_ERROR
    ELSE OrElse(o.detail, UNEXPECTED)

isAuthenticatedNonNull(token) == token # None
isAuthenticated(token) == TruthyString(token)

NoCall == [state |-> "idle", header |-> None, attempts |-> 0, outcome |-> <<>>, error |-> None]
NoAuthOp == <<"none">>

ApiIdle ==
    /\ storedToken = None
    /\ location = "/"
    /\ calls = [i \in Slots |-> NoCall]
    /\ lastAuth = NoAuthOp

\* The page is open; a token may be left from an earlier visit.
ApiInit ==
    /\ storedToken \in {None, Some("t1")}
    /\ location = "/"
    /\ calls = [i \in Slots |-> NoCall]
    /\ lastAuth = NoAuthOp

setAuthToken(token) ==
    /\ storedToken' = Some(token)
    /\ lastAuth' = <<"set", token>>
    /\ UNCHANGED <<location, calls>>

clearAuthToken ==
    /\ storedToken' = None
    /\ lastAuth' = <<"clear">>
    /\ UNCHANGED <<location, calls>>

\* A call is made in a free slot and its request goes out.
SendRequest(i) ==
    /\ calls[i].state # "pending"
    /\ calls' = [calls EXCEPT ![i] = [state |-> "pending",
                                      header |-> requestInterceptor(storedToken),
                                      attempts |-> 0, outcome |-> <<>>, error |-> None]]
    /\ UNCHANGED <<storedToken, location, lastAuth>>

\* A call fails before its request is sent; the error runs through the
\* error handler of the response interceptor.
RequestSetupFails(i, o) ==
    /\ calls[i].state # "pending"
    /\ calls' = [calls EXCEPT ![i] = [state |-> "rejected", header |-> None,
                                      attempts |-> 0, outcome |-> o,
                                      error |-> Some(errorMessage(o))]]
    /\ UNCHANGED <<storedToken, location, lastAuth>>

\* The outcome of a pending request arrives; the response interceptor runs.
Respond(i, o) ==
    /\ calls[i].state = "pending"
    /\ IF o.kind = "response" /\ o.status = 200
       THEN /\ calls' = [calls EXCEPT ![i].state = "resolved", ![i].outcome = o]
            /\ UNCHANGED <<storedToken, location, lastAuth>>
       ELSE /\ calls' = [calls EXCEPT ![i].state = "rejected", ![i].outcome = o,
                                      ![i].error = Some(errorMessage(o))]
            /\ IF o.kind = "response" /\ Unauthorized(o.status)
               THEN /\ storedToken' = None
                    /\ location' = "/login"
                    /\ lastAuth' = <<"401">>
               ELSE UNCHANGED <<storedToken, location, lastAuth>>

\* useQuery runs the query function again after a failure, up to retry times.
Retry(i) ==
    /\ calls[i].state = "rejected"
    /\ calls[i].attempts < retry
    /\ calls' = [calls EXCEPT ![i] = [state |-> "pending",
                                      header |-> requestInterceptor(storedToken),
                                      attempts |-> calls[i].attempts + 1,
                                      outcome |-> <<>>, error |-> None]]
    /\ UNCHANGED <<storedToken, location, lastAuth>>

(***************************************************************************)
(* Part 6: the Dashboard page                                              *)
(***************************************************************************)
\* What the query function resolves with: null (an empty body), or a
\* recovery score with its recommendation and alternatives.
NullData == None
RecoveryData ==
    [recommendation : {"hard run", "moderate bike", "rest"},
     alternatives : {<<>>, <<"easy swim">>}]
QueryData == {NullData} \cup {Some(d) : d \in RecoveryData}

\* What the query function rejects with: Errors of the API client, or a value
\* that is not an Error.
QueryErrors ==
    [instance : {TRUE}, message : {AUTH_REQUIRED, SERVER_ERROR, NETWORK_ERROR}]
        \cup [instance : {FALSE}, message : {"cancelled"}]
FAILED_TO_LOAD == "Failed to load recovery data"

isLoading(q) == q.status = "loading"
isError(q) == q.status = "error"
TruthyData(o) == o # None /\ Val(o) # NullData

DashboardMain(q) ==
    [view |-> "dashboard", recoveryScore |-> Val(Val(q.data)),
     recommendation |-> Val(Val(q.data)).recommendation,
     alternatives |-> Val(Val(q.data)).alternatives, button |-> "Refresh Data"]

\* A page that shows the data it has before looking at the error.
DashboardDataFirst(q) ==
    IF isLoading(q) THEN [view |-> "loading"]
    ELSE IF TruthyData(q.data) THEN DashboardMain(q)
    ELSE IF isError(q)
    THEN [view |-> "error",
          message |-> IF Val(q.error).instance THEN Val(q.error).message ELSE FAILED_TO_LOAD,
          button |-> "Try Again"]
    ELSE [view |-> "no_data"]

Dashboard(q) ==
    IF isLoading(q) THEN [view |-> "loading"]
    ELSE IF isError(q)
    THEN [view |-> "error",
          message |-> IF Val(q.error).instance THEN Val(q.error).message ELSE FAILED_TO_LOAD,
          button |-> "Try Again"]
    ELSE IF ~TruthyData(q.data) THEN [view |-> "no_data"]
    ELSE DashboardMain(q)

NoQuery == [status |-> "off", data |-> None, error |-> None, fetching |-> FALSE, failureCount |-> 0]

DashIdle ==
    /\ query = NoQuery
    /\ dashView = NotRendered

\* The page is mounted: the query starts fetching and the page renders.
DashboardInit ==
    /\ query = [status |-> "loading", data |-> None, error |-> None,
                fetching |-> TRUE, failureCount |-> 0]
    /\ dashView = Dashboard(query)

\* The query function resolves; the page renders again.
FetchSucceeds(d) ==
    /\ query.fetching
    /\ query' = [status |-> "success", data |-> Some(d), error |-> None,
                 fetching |-> FALSE, failureCount |-> 0]
    /\ dashView' = Dashboard(query')

\* The query function rejects: the query tries again up to retry times, then
\* is in error with the data it had; the page renders again.
FetchFails(e) ==
    /\ query.fetching
    /\ query' = IF query.failureCount < retry
                THEN [query EXCEPT !.failureCount = @ + 1]
                ELSE [query EXCEPT !.status = "error", !.error = Some(e),
                                   !.fetching = FALSE, !.failureCount = @ + 1]
    /\ dashView' = Dashboard(query')

\* Try Again or Refresh Data is pressed.
refetch ==
    /\ ~query.fetching
    /\ dashView # NotRendered
    /\ dashView.view \in {"error", "dashboard"}
    /\ query' = [query EXCEPT !.fetching = TRUE, !.failureCount = 0]
    /\ dashView' = Dashboard(query')

UiIdle ==
    /\ wrProps = NoProps
    /\ wrView = NotRendered
    /\ rsProps = NoProps
    /\ rsView = NotRendered
    /\ ApiIdle
    /\ DashIdle

UiInit ==
    /\ wrProps \in Props
    /\ wrView = NotRendered
    /\ rsProps = NoProps
    /\ rsView = NotRendered
    /\ ApiIdle
    /\ DashIdle

RecoveryScoreInit ==
    /\ rsProps \in RecoveryScoreProps
    /\ rsView = NotRendered
    /\ wrProps = NoProps
    /\ wrView = NotRendered
    /\ ApiIdle
    /\ DashIdle

ApiStartUi ==
    /\ wrProps = NoProps
    /\ wrView = NotRendered
    /\ rsProps = NoProps
    /\ rsView = NotRendered
    /\ ApiInit
    /\ DashIdle

DashboardStartUi ==
    /\ wrProps = NoProps
    /\ wrView = NotRendered
    /\ rsProps = NoProps
    /\ rsView = NotRendered
    /\ ApiIdle
    /\ DashboardInit

\* React renders the component with its props.
Render ==
    /\ wrView = NotRendered
    /\ wrView' = WorkoutRecommendation(wrProps)
    /\ UNCHANGED <<wrProps, rsProps, rsView, apiVars, dashVars>>

RenderRecoveryScore ==
    /\ rsView = NotRendered
    /\ rsView' = RecoveryScore(rsProps)
    /\ UNCHANGED <<rsProps, wrProps, wrView, apiVars, dashVars>>

CacheIdle ==
    /\ data = [u \in Users |-> [d \in Dates |-> 0]]
    /\ cache = [k \in Keys |-> NoEntry]
    /\ inflight = [k \in Keys |-> <<>>]
    /\ client = [c \in Clients |-> Idle]
    /\ recalcLog = [k \in Keys |-> NoRecalc]
    /\ writes = 0
    /\ ops = 0

Init == CacheInit /\ ScoreIdle /\ UiIdle

Next ==
    \/ \E c \in Clients, k \in Keys : RequestScore(c, k) /\ UNCHANGED <<scoreVars, uiVars>>
    \/ \E k \in Keys : CompleteComputation(k) /\ UNCHANGED <<scoreVars, uiVars>>
    \/ \E k \in Keys : NewData(k[1], k[2]) /\ UNCHANGED <<scoreVars, uiVars>>
    \/ \E k \in Keys : Recalculate(k) /\ UNCHANGED <<scoreVars, uiVars>>
    \/ Tick /\ UNCHANGED <<scoreVars, uiVars>>

Spec == Init /\ [][Next]_vars

ScoreNext ==
    \/ Score /\ UNCHANGED <<cacheVars, uiVars>>
    \/ Recommend /\ UNCHANGED <<cacheVars, uiVars>>

ScoreStart == CacheIdle /\ ScoreInit /\ UiIdle

ScoreSpec == ScoreStart /\ [][ScoreNext]_vars

StatsNext == ComputeBaselines /\ UNCHANGED <<cacheVars, uiVars>>

StatsStart == CacheIdle /\ StatsInit /\ UiIdle

StatsSpec == StatsStart /\ [][StatsNext]_vars

AlternativesNext == GenerateAlternatives /\ UNCHANGED <<cacheVars, uiVars>>

AlternativesStart == CacheIdle /\ AlternativesInit /\ UiIdle

AlternativesSpec == AlternativesStart /\ [][AlternativesNext]_vars

ApiNext ==
    \/ \E t \in Tokens : setAuthToken(t) /\ UNCHANGED <<cacheVars, scoreVars, wrProps, wrView, rsProps, rsView, dashVars>>
    \/ clearAuthToken /\ UNCHANGED <<cacheVars, scoreVars, wrProps, wrView, rsProps, rsView, dashVars>>
    \/ \E i \in Slots : SendRequest(i) /\ UNCHANGED <<cacheVars, scoreVars, wrProps, wrView, rsProps, rsView, dashVars>>
    \/ \E i \in Slots, o \in SetupFailures :
          RequestSetupFails(i, o) /\ UNCHANGED <<cacheVars, scoreVars, wrProps, wrView, rsProps, rsView, dashVars>>
    \/ \E i \in Slots, o \in Outcomes :
          Respond(i, o) /\ UNCHANGED <<cacheVars, scoreVars, wrProps, wrView, rsProps, rsView, dashVars>>
    \/ \E i \in Slots : Retry(i) /\ UNCHANGED <<cacheVars, scoreVars, wrProps, wrView, rsProps, rsView, dashVars>>

ApiStart == CacheIdle /\ ScoreIdle /\ ApiStartUi

ApiSpec == ApiStart /\ [][ApiNext]_vars

DashboardNext ==
    \/ \E d \in QueryData :
          FetchSucceeds(d) /\ UNCHANGED <<cacheVars, scoreVars, wrProps, wrView, rsProps, rsView, apiVars>>
    \/ \E e \in QueryErrors :
          FetchFails(e) /\ UNCHANGED <<cacheVars, scoreVars, wrProps, wrView, rsProps, rsView, apiVars>>
    \/ refetch /\ UNCHANGED <<cacheVars, scoreVars, wrProps, wrView, rsProps, rsView, apiVars>>

DashboardStart == CacheIdle /\ ScoreIdle /\ DashboardStartUi

DashboardSpec == DashboardStart /\ [][DashboardNext]_vars

RenderNext == Render /\ UNCHANGED <<cacheVars, scoreVars>>

RenderStart == CacheIdle /\ ScoreIdle /\ UiInit

RenderSpec == RenderStart /\ [][RenderNext]_vars

RecoveryScoreNext == RenderRecoveryScore /\ UNCHANGED <<cacheVars, scoreVars>>

RecoveryScoreStart == CacheIdle /\ ScoreIdle /\ RecoveryScoreInit

RecoveryScoreSpec == RecoveryScoreStart /\ [][RecoveryScoreNext]_vars

(***************************************************************************)
(* Claims about the cache (specification Spec).                            *)
(***************************************************************************)

\* C1: at most one recomputation per cache key (user_id, date) is in flight
\* at any time, in every interleaving of requests, invalidations and
\* recalculations.
C1_SingleFlight == \A k \in Keys : Len(inflight[k]) <= 1

\* A computation is outstanding and two callers wait on it.
C1_Witness ==
    \E k \in Keys : Len(inflight[k]) = 1 /\ Cardinality(Receivers(k)) = 2

\* C2: a request that arrives while a computation for its key is outstanding
\* starts no second computation, and when the computation finishes every
\* caller waiting on the key receives the result of that computation.
C2_WaitersShareResult ==
    [][/\ \A c \in Clients, k \in Keys :
            (/\ client[c].st # "waiting"
             /\ client'[c].st = "waiting"
             /\ client'[c].key = k
             /\ inflight[k] # <<>>) => inflight'[k] = inflight[k]
       /\ \A k \in Keys :
            Len(inflight'[k]) < Len(inflight[k]) =>
                \A c \in Clients :
                    (client[c].st = "waiting" /\ client[c].key = k) =>
                        /\ client'[c].st = "done"
                        /\ client'[c].key = k
                        /\ client'[c].value = Head(inflight[k])
                        /\ client'[c].value = cache'[k].value]_vars

\* Two requests were made, for the same key, and both callers hold the result
\* of the one computation.
C2_Witness ==
    /\ ops = 2
    /\ \E k \in Keys :
        /\ inflight[k] = <<>>
        /\ cache[k].present
        /\ \A c \in Clients :
            /\ client[c].st = "done"
            /\ client[c].key = k
            /\ client[c].via = "computed"
            /\ client[c].value = cache[k].value

\* C3: new data for user u and date d removes exactly the cached entries
\* (u, d') with d <= d' <= d + 27; every other entry is left unchanged.
C3_InvalidationExact ==
    [][\A u \in Users, d \in Dates :
          data'[u][d] # data[u][d] =>
              \A k \in Keys :
                  cache'[k] = IF k[1] = u /\ d <= k[2] /\ k[2] <= d + 27
                              THEN NoEntry
                              ELSE cache[k]]_vars

\* New data arrived for (u, 0) while every key was cached: the entries of u
\* for dates 0 and 27 are gone, the entry for date 28 and those of the other
\* user are still there.
C3_Witness ==
    \E u \in Users :
        /\ data[u][0] = 1
        /\ writes = 1
        /\ \A k \in Keys :
            cache[k].present <=> ~(k[1] = u /\ k[2] <= 27)

C5_Idempotent ==
    \A c1, c2 \in Clients :
        (/\ client[c1].st = "done"
         /\ client[c2].st = "done"
         /\ client[c1].key = client[c2].key
         /\ client[c1].reqEpoch = writes
         /\ client[c2].reqEpoch = writes) => client[c1].value = client[c2].value

Produced == phase \in {"scored", "recommended"}

\* C7: the total score and every present component score of a produced
\* RecoveryScore lie in [0,100], for any subset of present components and any
\* adjustment factor.
C7_ScoresInRange ==
    Produced =>
        /\ score.total_score \in 0..100
        /\ \A c \in ComponentNames :
            score.components[c] # None => Val(score.components[c]) \in 0..100

\* A score was produced from an HRV far above its baseline, with a missing
\* component and the strongest load penalty.
C7_Witness ==
    /\ phase = "scored"
    /\ inp.hrv = Some(90)
    /\ score.components.hrv = Some(100)
    /\ score.components.stress = None
    /\ score.adjustment_tenths = 8

\* C8: status is a function of total_score alone: green exactly when
\* total_score >= 80, yellow exactly when 50 <= total_score < 80, red exactly
\* when total_score < 50.
C8_StatusByThresholds ==
    Produced =>
        /\ score.status = "green" <=> score.total_score >= 80
        /\ score.status = "yellow" <=> (50 <= score.total_score /\ score.total_score < 80)
        /\ score.status = "red" <=> score.total_score < 50

\* A score at the lower edge of the green band.
C8_Witness == phase = "scored" /\ score.total_score = 80 /\ score.status = "green"

C12_InsufficientHistory ==
    [][/\ (phase = "input" /\ inp.days < 7) =>
            /\ phase' = "failed"
            /\ score' = [ok |-> FALSE, error |-> "InsufficientHistory",
                         days_available |-> inp.days, days_required |-> 7]
            /\ rec' = NoRec
       /\ phase # "failed"]_vars

\* Scenario C: three days on record, all of today's values present.
C12_Witness ==
    /\ phase = "failed"
    /\ inp.days = 3
    /\ inp.hrv = Some(65) /\ inp.hr = Some(53)
    /\ inp.sleepMin = Some(480) /\ inp.stress = Some(30)
    /\ score.error = "InsufficientHistory"
    /\ score.days_available = 3

\* C13: for every defined ratio acute_load_7d / chronic_load_28d the
\* adjustment factor is 0.8 when ratio > 1.5, 0.9 when 1.3 < ratio <= 1.5 and
\* 1.0 otherwise; the factor of every produced score lies in (0,1].
C13_AdjustmentPolicy ==
    Produced =>
        /\ score.adjustment_tenths \in 1..10
        /\ (inp.load[2] # None /\ inp.load[2][1] > 0) =>
               LET acute == inp.load[1]
                   chronic == inp.load[2][1]
               IN  score.adjustment_tenths =
                       IF 10 * acute > 15 * chronic THEN 8
                       ELSE IF 10 * acute > 13 * chronic THEN 9
                       ELSE 10

\* A ratio of exactly 1.5 (450 against 300) gets the factor 0.9.
C13_Witness ==
    /\ phase = "scored"
    /\ inp.load = <<450, Some(300)>>
    /\ score.ratio_defined
    /\ score.adjustment_tenths = 9

\* C14: when chronic_load_28d is 0 or absent the ratio is None and the
\* adjustment factor is 1.0; the score is computed from the components only
\* and no error is raised.
C14_ChronicZeroNoPenalty ==
    (/\ phase # "input"
     /\ inp.days >= 7
     /\ \/ inp.hrv # None \/ inp.hr # None \/ inp.sleepMin # None \/ inp.stress # None
     /\ \/ inp.load[2] = None \/ inp.load[2] = Some(0)) =>
        /\ score.ok
        /\ ~score.ratio_defined
        /\ score.adjustment_tenths = 10
        /\ score.total_score = TotalScore(score.components, 10)

\* Scenario D: a chronic load of 0 with all four components present.
C14_Witness ==
    /\ phase = "scored"
    /\ inp.load = <<280, Some(0)>>
    /\ \A c \in ComponentNames : score.components[c] # None
    /\ ~score.ratio_defined
    /\ score.adjustment_tenths = 10

C17_HrvMonotonic ==
    (phase = "scored" /\ inp.hrv # None) =>
        \A h \in HrvProbes :
            LET other == ComponentScores([inp EXCEPT !.hrv = Some(h)]).hrv[1]
                mine == score.components.hrv[1]
            IN  /\ h >= inp.hrv[1] => other >= mine
                /\ h <= inp.hrv[1] => other <= mine

\* HRV 10% below a baseline of 60 scores 50; the baseline value itself would
\* score strictly more.
C17_Witness ==
    /\ phase = "scored"
    /\ inp.hrv = Some(54) /\ inp.hrvAvg = 60
    /\ score.components.hrv = Some(50)
    /\ ComponentScores([inp EXCEPT !.hrv = Some(60)]).hrv = Some(75)

Rendered == wrProps # NoProps /\ wrView # NotRendered

\* C20: the component shows the warnings block exactly when the warnings list
\* is non-empty, the workout-structure block exactly when details is
\* non-null, and the alternatives block exactly when the alternatives list is
\* non-empty; every warning and every alternative passed in is rendered.
C20_BlocksFollowProps ==
    Rendered =>
        LET warnings == wrProps.recommendation.warnings
            alternatives == wrProps.alternatives
        IN  /\ wrView.warnings # None <=> Len(warnings) > 0
            /\ wrView.details # None <=> wrProps.recommendation.details # None
            /\ wrView.alternatives # None <=> Len(alternatives) > 0
            /\ Len(warnings) > 0 =>
                   /\ Len(wrView.warnings[1].items) = Len(warnings)
                   /\ \A i \in DOMAIN warnings : wrView.warnings[1].items[i] = warnings[i]
            /\ Len(alternatives) > 0 =>
                   /\ Len(wrView.alternatives[1].cards) = Len(alternatives)
                   /\ \A i \in DOMAIN alternatives :
                          /\ wrView.alternatives[1].cards[i].heading = alternatives[i].workout_type
                          /\ wrView.alternatives[1].cards[i].badge.text = alternatives[i].intensity
                          /\ wrView.alternatives[1].cards[i].rationale = alternatives[i].rationale

\* Two warnings, details whose fields are all null, and two alternatives: all
\* three blocks are rendered.
C20_Witness ==
    /\ Rendered
    /\ Len(wrProps.recommendation.warnings) = 2
    /\ wrProps.recommendation.details =
           Some([structure |-> None, zones |-> None, warmup |-> None, cooldown |-> None])
    /\ Len(wrProps.alternatives) = 2
    /\ wrView.warnings # None
    /\ wrView.details # None
    /\ Len(wrView.alternatives[1].cards) = 2

(***************************************************************************)
(* Claims about the RecoveryScore component (RecoveryScoreSpec).           *)
(***************************************************************************)
RecoveryScoreRendered == rsProps # NoProps /\ rsView # NotRendered

\* C21: the component shows the status indicator in the colour of the given
\* status (green, yellow or red), shows the updating/outdated notice exactly
\* when is_expired is true, and lists in the breakdown exactly the component
\* scores that are not null.
C21_StatusNoticeBreakdown ==
    RecoveryScoreRendered =>
        LET d == rsProps.data
            shown == {rsView.breakdown[i].label : i \in DOMAIN rsView.breakdown}
        IN  /\ d.status = "green" => rsView.statusClass = "bg-green-500"
            /\ d.status = "yellow" => rsView.statusClass = "bg-yellow-500"
            /\ d.status = "red" => rsView.statusClass = "bg-red-500"
            /\ rsView.expiredNotice # None <=> d.is_expired
            /\ "HRV" \in shown <=> d.components.hrv_score # None
            /\ "Resting HR" \in shown <=> d.components.hr_score # None
            /\ "Sleep" \in shown <=> d.components.sleep_score # None
            /\ "Training Load" \in shown <=> d.components.acwr_score # None
            /\ Len(rsView.breakdown) = Cardinality(shown)

\* An expired red score whose HRV is null and whose sleep score is 0: three
\* rows are listed, the zero among them.
C21_Witness ==
    /\ RecoveryScoreRendered
    /\ rsProps.data.status = "red"
    /\ rsProps.data.is_expired
    /\ rsProps.data.components =
           [hrv_score |-> None, hr_score |-> Some(90), sleep_score |-> Some(0),
            acwr_score |-> Some(90)]
    /\ rsView.statusClass = "bg-red-500"
    /\ rsView.expiredNotice # None
    /\ Len(rsView.breakdown) = 3

\* C22: the intensity badge carries the styling of the recommendation's
\* intensity for hard, moderate, recovery and rest, and the moderate styling
\* for every other intensity value (easy and maximal included), so the badge
\* class is always one of the four stylings.
C22_BadgeStyleOrModerate ==
    Rendered =>
        LET intensity == wrProps.recommendation.intensity
            class == wrView.badge.className
        IN  /\ intensity = "hard" => class = "bg-red-100 text-red-800 border-red-200"
            /\ intensity = "moderate" =>
                   class = "bg-yellow-100 text-yellow-800 border-yellow-200"
            /\ intensity = "recovery" => class = "bg-blue-100 text-blue-800 border-blue-200"
            /\ intensity = "rest" => class = "bg-gray-100 text-gray-800 border-gray-200"
            /\ intensity \notin {"hard", "moderate", "recovery", "rest"} =>
                   class = "bg-yellow-100 text-yellow-800 border-yellow-200"

\* C23: a request checks the cache first. On a hit the cached result is
\* returned and no computation is started; on a miss the caller waits for a
\* computation of the key, whose result is stored under (user_id, date) and
\* returned; a request that finds the stored entry neither invalidated nor
\* expired is a hit returning that same result.
C23_CacheControlFlow ==
    [][\A c \in Clients :
          client'[c] # client[c] =>
              LET k == client'[c].key
              IN  /\ (ops' # ops /\ cache[k].present /\ cache[k].age < 24) =>
                         /\ client'[c].st = "done"
                         /\ client'[c].via = "hit"
                         /\ client'[c].value = cache[k].value
                         /\ inflight' = inflight
                         /\ cache' = cache
                  /\ (ops' # ops /\ ~(cache[k].present /\ cache[k].age < 24)) =>
                         /\ client'[c].st = "waiting"
                         /\ Len(inflight'[k]) = 1
                         /\ cache' = cache
                  /\ ops' = ops =>
                         /\ client[c].st = "waiting"
                         /\ client'[c].st = "done"
                         /\ client'[c].via = "computed"
                         /\ cache'[k].present
                         /\ cache'[k].age = 0
                         /\ cache'[k].value = client'[c].value
      ]_vars

\* Starting from an empty cache, one caller missed and received the computed
\* result; the other asked later and was served the same result from the
\* cache.
C23_Witness ==
    \E k \in Keys :
        /\ ops = 2
        /\ writes = 0
        /\ client["c1"].st = "done" /\ client["c1"].key = k /\ client["c1"].via = "computed"
        /\ client["c2"].st = "done" /\ client["c2"].key = k /\ client["c2"].via = "hit"
        /\ client["c1"].value = client["c2"].value
        /\ inflight[k] = <<>>

Sent(i) == calls'[i] # calls[i] /\ calls'[i].state = "pending"

\* A call of slot i ends in this step with anything but a 200 response.
Failed(i) ==
    /\ calls'[i] # calls[i]
    /\ calls'[i].state \in {"resolved", "rejected"}
    /\ ~(calls'[i].outcome.kind = "response" /\ calls'[i].outcome.status = 200)

\* C27: on a 401 response the stored token is removed, the browser is sent to
\* /login and the call rejects with an error; on every other error status, a
\* missing response or a request set-up failure the call rejects with an
\* error and the stored token stays as it is.
C27_ErrorResponses ==
    [][\A i \in Slots :
          Failed(i) =>
              /\ calls'[i].state = "rejected"
              /\ calls'[i].error # None
              /\ IF calls'[i].outcome.kind = "response" /\ calls'[i].outcome.status = 401
                 THEN storedToken' = None /\ location' = "/login"
                 ELSE storedToken' = storedToken]_vars

\* A call was answered with 401 while a token was stored.
C27_Witness ==
    /\ lastAuth = <<"401">>
    /\ storedToken = None
    /\ location = "/login"
    /\ \E i \in Slots :
          /\ calls[i].state = "rejected"
          /\ calls[i].header = Some(<<"Bearer", "t1">>)
          /\ calls[i].outcome.status = 401
          /\ calls[i].error = Some(AUTH_REQUIRED)

\* C28 as stated: a request carries an Authorization Bearer header exactly
\* when a token is stored when it is sent, the header holds that token, and
\* after clearAuthToken or a 401 response no request carries the header until
\* setAuthToken is called again.
C28_HeaderIffStored ==
    [][\A i \in Slots :
          Sent(i) =>
              /\ calls'[i].header # None <=> storedToken # None
              /\ calls'[i].header # None => calls'[i].header = Some(<<"Bearer", Val(storedToken)>>)
              /\ lastAuth \in {<<"clear">>, <<"401">>} => calls'[i].header = None]_vars

\* C28, amended: a request carries an Authorization Bearer header exactly
\* when a non-empty token is stored when it is sent, the header holds that
\* token, and after clearAuthToken or a 401 response no request, automatic
\* retries included, carries the header until setAuthToken is called again.
C28_HeaderIffNonEmptyStored ==
    [][\A i \in Slots :
          Sent(i) =>
              /\ calls'[i].header # None <=> (storedToken # None /\ storedToken # Some(""))
              /\ calls'[i].header # None => calls'[i].header = Some(<<"Bearer", Val(storedToken)>>)
              /\ lastAuth \in {<<"clear">>, <<"401">>} => calls'[i].header = None]_vars

\* The automatic retry of a call that was answered with 401 is on its way
\* without the header the first attempt carried.
C28_Witness ==
    /\ lastAuth = <<"401">>
    /\ storedToken = None
    /\ calls[1].state = "pending"
    /\ calls[1].attempts = 1
    /\ calls[1].header = None
    /\ \A i \in Slots \ {1} : calls[i] = NoCall

\* C29: after any sequence of setAuthToken, clearAuthToken and 401 responses
\* isAuthenticated is true exactly when the last of them was setAuthToken
\* with a non-empty token; after clearAuthToken no token is stored whatever
\* was stored before, and after setAuthToken the stored token is the new one.
C29_AuthenticatedIffLastSet ==
    lastAuth # NoAuthOp =>
        /\ isAuthenticated(storedToken) <=> (lastAuth[1] = "set" /\ lastAuth[2] # "")
        /\ lastAuth = <<"clear">> => storedToken = None
        /\ lastAuth[1] = "set" => storedToken = Some(lastAuth[2])

\* An empty token was set last: a token is stored, the user is not
\* authenticated.
C29_Witness ==
    /\ lastAuth = <<"set", "">>
    /\ storedToken = Some("")
    /\ ~isAuthenticated(storedToken)

\* C30: the Dashboard shows exactly one of four views: the spinner while the
\* query is loading, else the error card with a retry button when it is in
\* error, else the no-data message when it succeeded without data, else the
\* recovery score with the recommendation; the recommendation is never
\* shown while the query is loading or in error.
C30_OneOfFourViews ==
    dashView # NotRendered =>
        /\ dashView.view \in {"loading", "error", "no_data", "dashboard"}
        /\ query.status = "loading" => dashView.view = "loading"
        /\ query.status = "error" => dashView.view = "error" /\ dashView.button = "Try Again"
        /\ (query.status = "success" /\ query.data \in {None, Some(NullData)}) =>
               dashView.view = "no_data"
        /\ (query.status = "success" /\ query.data \notin {None, Some(NullData)}) =>
               /\ dashView.view = "dashboard"
               /\ dashView.recoveryScore = Val(Val(query.data))
               /\ dashView.recommendation = Val(Val(query.data)).recommendation
        /\ dashView.view = "dashboard" => query.status \notin {"loading", "error"}

\* A refetch failed after a fetch that had brought data: the error card is
\* shown although the query still holds the data.
C30_Witness ==
    /\ dashView # NotRendered
    /\ query.status = "error"
    /\ query.data \notin {None, Some(NullData)}
    /\ dashView.view = "error"
====
